---- MODULE Spec2Model ----
(***************************************************************************)
(* A model of visual_genome/local.py: the entity merger (map_object), the  *)
(* graph builder (parse_graph_local), sense resolution (init_synsets) and  *)
(* the attribute synthesizer (extract_positional_attributes,               *)
(* extract_category_attributes, init_attributes with its similarity        *)
(* cache).                                                                 *)
(*                                                                         *)
(* Python values are modelled as follows.  A dict with string keys is a    *)
(* function whose domain is its key set ('k in d' is k \in DOMAIN d, and   *)
(* 'del d[k]' restricts the domain).  A list is a sequence.  An instance   *)
(* is an address into a heap (a sequence of field records), so that        *)
(* instance identity is equality of addresses and is distinct from         *)
(* equality of fields.  An object identifier is [pfx, n]: the integer n    *)
(* carrying pfx copies of the prefix "gw_" ([pfx |-> 0, n |-> 7] is 7 and  *)
(* [pfx |-> 1, n |-> 7] is the string "gw_7").                             *)
(***************************************************************************)
EXTENDS Integers, Sequences, FiniteSets, TLC

VARIABLES
    object_map,     \* map_object's registry: scoped identifier -> address
    heap,           \* the Objects allocated for the registry, by address
    last,           \* the latest map_object call: its record's identifier and flag, its result
    prev,           \* the map_object call before the latest one
    data,           \* the raw per-image record handed to parse_graph_local
    graph,          \* the Graph returned by the latest parse_graph_local, if any
    count_skips,    \* the module-level skip counters [relationships, attributes]
    skips_before,   \* count_skips as it was when the latest build started
    image,          \* the image handed to extract_positional_attributes
    bbox,           \* the latest box [x, y, width, height] handed to it, if any
    positional_attributes,  \* what it returned for that box
    scene_graph,    \* the Graph handed to init_synsets: the sense lists of its parts
    sg_in,          \* that Graph as it was before the first pass
    sg_once,        \* that Graph as the first pass left it
    syn_outcome,    \* how the latest pass ended: "ok", or the exception it raised
    passes,         \* passes of init_synsets made over the Graph
    attributes_data,    \* the category table (visa.jsonl), in table order
    similarity_cache,   \* the module-level cache: sense name -> category sense name
    sg_data,            \* the scene record handed to init_attributes
    gw_image_data,      \* the auxiliary (guesswhat) objects of the image, or "None"
    synth_log,          \* one entry per object the latest init_attributes processed
    synth_outcome,      \* "none" before the call, then "ok" or the exception raised
    first_synth,        \* per cache key added by this process: what the adding synthesis gave
    storage,            \* the working directory: the two cache directories and the cache file
    proc,               \* the process: its phase, and what its synthesis run did to the file
    boot                \* what the latest import of the module found and loaded

mergeVars == <<object_map, heap, last, prev>>

graphVars == <<data, graph, count_skips, skips_before>>

posVars == <<image, bbox, positional_attributes>>

synVars == <<scene_graph, sg_in, sg_once, syn_outcome, passes>>

cacheVars == <<storage, proc, boot>>

attrVars == <<attributes_data, similarity_cache, sg_data, gw_image_data,
              synth_log, synth_outcome, first_synth>>

vars == <<object_map, heap, last, prev, data, graph, count_skips, skips_before,
          image, bbox, positional_attributes,
          scene_graph, sg_in, sg_once, syn_outcome, passes,
          attributes_data, similarity_cache, sg_data, gw_image_data,
          synth_log, synth_outcome, first_synth,
          storage, proc, boot>>

(***************************************************************************)
(* Bounds.                                                                 *)
(***************************************************************************)
MaxId == 2          \* raw object identifiers are 1..MaxId
MaxHeap == 2        \* Objects a standing registry may hold
MaxObjs == 2        \* object records of one input
MaxRels == 2        \* relationship records of one input
MaxAttrs == 1       \* attribute records of one input
MaxSkips == 1       \* a build starts only while the skips counted so far are at most this
MaxQuarter == 4     \* image widths and heights are 4, 8, .., 4 * MaxQuarter pixels
MaxSenses == 2      \* sense references of one object, relationship or attribute
MaxParts == 1       \* objects, relationships and attributes of a Graph given to init_synsets
MaxPasses == 2      \* passes of init_synsets over one Graph
MaxRows == 2        \* rows of the category table
MaxSceneObjs == 2   \* objects of one scene record given to init_attributes
MaxStarts == 2      \* processes started one after the other in one working directory

(***************************************************************************)
(* Dict helpers.                                                           *)
(***************************************************************************)
Get(d, k, default) == IF k \in DOMAIN d THEN d[k] ELSE default

Del(d, ks) == [k \in DOMAIN d \ ks |-> d[k]]

Put(d, k, v) == [x \in DOMAIN d \cup {k} |-> IF x = k THEN v ELSE d[x]]

(***************************************************************************)
(* map_object.                                                             *)
(***************************************************************************)
\* "gw_{}".format(object_id)
GwFormat(id) == [pfx |-> id.pfx + 1, n |-> id.n]

ScopedIdNoPrefix(obj) == obj["object_id"]

\* oid = "gw_{}".format(obj['object_id']) if obj.get("guesswhat", False) else obj["object_id"]
ScopedId(obj) ==
    IF Get(obj, "guesswhat", FALSE) THEN GwFormat(obj["object_id"]) ELSE obj["object_id"]

\* The branch that constructs the Object: the attribute lists are taken out
\* of the record (absent ones default to the empty list), w/h are renamed,
\* the guesswhat field records the presence of the key, and Object(**obj)
\* keeps the remaining fields.
NewObject(obj, oid) ==
    LET o1 == Put(Del(obj, {"object_id"}), "id", oid)
        attrs == Get(o1, "attributes", <<>>)
        abs_attrs == Get(o1, "abstract_attributes", <<>>)
        sit_attrs == Get(o1, "situated_attributes", <<>>)
        o2 == Del(o1, {"attributes", "abstract_attributes", "situated_attributes"})
        o3 == IF "w" \in DOMAIN o2
              THEN Put(Put(Del(o2, {"w", "h"}), "width", o2["w"]), "height", o2["h"])
              ELSE o2
        o4 == Put(o3, "guesswhat", "guesswhat" \in DOMAIN o3)
    IN  Put(Put(Put(o4, "attributes", attrs), "abstract_attributes", abs_attrs),
            "situated_attributes", sit_attrs)

map_object_always_new(om, hp, obj) ==
    LET oid == ScopedId(obj)
    IN  [object_map |-> Put(om, oid, Len(hp) + 1),
         heap |-> Append(hp, NewObject(obj, oid)),
         object_ |-> Len(hp) + 1]

map_object_overwrite(om, hp, obj) ==
    LET oid == ScopedId(obj)
    IN  IF oid \in DOMAIN om
        THEN [object_map |-> om,
              heap |-> [hp EXCEPT ![om[oid]] = NewObject(obj, oid)],
              object_ |-> om[oid]]
        ELSE [object_map |-> Put(om, oid, Len(hp) + 1),
              heap |-> Append(hp, NewObject(obj, oid)),
              object_ |-> Len(hp) + 1]

\* map_object(object_map, obj) -> (object_map, object_); the heap is threaded
\* through because constructing an Object allocates it.
map_object(om, hp, obj) ==
    LET oid == ScopedId(obj)
    IN  IF oid \in DOMAIN om
        THEN [object_map |-> om, heap |-> hp, object_ |-> om[oid]]
        ELSE [object_map |-> Put(om, oid, Len(hp) + 1),
              heap |-> Append(hp, NewObject(obj, oid)),
              object_ |-> Len(hp) + 1]

(***************************************************************************)
(* Raw object records handed to map_object.                                *)
(***************************************************************************)
RawIds == {[pfx |-> 0, n |-> n] : n \in 1..MaxId}

\* The optional keys of a raw record: the guesswhat flag (absent, False or
\* True) and the attribute lists.
GwOptions == {<<>>} \cup {[guesswhat |-> b] : b \in BOOLEAN}

\* The other fields of a raw record: a record as the dataset holds it (box
\* under w/h, no attribute lists), and one as init_attributes leaves it.
FieldOptions ==
    { [x |-> 1, y |-> 1, w |-> 2, h |-> 2],
      [x |-> 3, y |-> 3, width |-> 1, height |-> 1,
       attributes |-> <<"red", "center", "fast">>,
       abstract_attributes |-> <<"fast">>,
       situated_attributes |-> <<"red", "center">>] }

RawObjects ==
    { [object_id |-> i] @@ g @@ f : i \in RawIds, g \in GwOptions,
                                     f \in FieldOptions }

NoCall == [called |-> FALSE]

\* One call of map_object on the standing registry.
MapObject(obj) ==
    /\ ScopedId(obj) \in DOMAIN object_map \/ Len(heap) < MaxHeap
    /\ LET r == map_object(object_map, heap, obj)
       IN  /\ object_map' = r.object_map
           /\ heap' = r.heap
           /\ last' = [called |-> TRUE,
                       object_id |-> obj["object_id"],
                       flag |-> Get(obj, "guesswhat", FALSE),
                       oid |-> ScopedId(obj),
                       object_ |-> r.object_,
                       known |-> ScopedId(obj) \in DOMAIN object_map,
                       existing |-> IF ScopedId(obj) \in DOMAIN object_map
                                    THEN <<heap[object_map[ScopedId(obj)]]>>
                                    ELSE <<>>,
                       before |-> Cardinality(DOMAIN object_map),
                       after |-> Cardinality(DOMAIN r.object_map)]
           /\ prev' = last
    /\ UNCHANGED graphVars
    /\ UNCHANGED posVars
    /\ UNCHANGED synVars
    /\ UNCHANGED attrVars
    /\ UNCHANGED cacheVars

(***************************************************************************)
(* parse_graph_local.                                                      *)
(***************************************************************************)
Range(s) == {s[i] : i \in DOMAIN s}

\* for obj in data['objects']: map_object, objects.append(o_)
RECURSIVE MergeObjects(_, _)
MergeObjects(recs, st) ==
    IF recs = <<>> THEN st
    ELSE LET r == map_object(st.object_map, st.heap, Head(recs))
         IN  MergeObjects(Tail(recs),
                          [object_map |-> r.object_map,
                           heap |-> r.heap,
                           objects |-> Append(st.objects, r.object_)])

RECURSIVE LinkRelationshipsNoCount(_, _)
LinkRelationshipsNoCount(recs, st) ==
    IF recs = <<>> THEN st
    ELSE LET rel == Head(recs)
         IN  IF rel.subject_id \in DOMAIN st.object_map
                /\ rel.object_id \in DOMAIN st.object_map
             THEN LET s == map_object(st.object_map, st.heap,
                                      [object_id |-> rel.subject_id])
                      o == map_object(s.object_map, s.heap,
                                      [object_id |-> rel.object_id])
                  IN  LinkRelationshipsNoCount(Tail(recs),
                          [object_map |-> o.object_map,
                           heap |-> o.heap,
                           relationships |->
                               Append(st.relationships,
                                      [id |-> rel.relationship_id,
                                       subject |-> s.object_,
                                       predicate |-> rel.predicate,
                                       object |-> o.object_,
                                       synset |-> rel.synsets]),
                           skips |-> st.skips])
             ELSE LinkRelationshipsNoCount(Tail(recs), st)

\* for rel in data['relationships']: a record whose subject_id and object_id
\* are both keys of the registry becomes a Relationship over the registry's
\* Objects; any other record is skipped and count_skips[0] is incremented.
RECURSIVE LinkRelationships(_, _)
LinkRelationships(recs, st) ==
    IF recs = <<>> THEN st
    ELSE LET rel == Head(recs)
         IN  IF rel.subject_id \in DOMAIN st.object_map
                /\ rel.object_id \in DOMAIN st.object_map
             THEN LET s == map_object(st.object_map, st.heap,
                                      [object_id |-> rel.subject_id])
                      o == map_object(s.object_map, s.heap,
                                      [object_id |-> rel.object_id])
                  IN  LinkRelationships(Tail(recs),
                          [object_map |-> o.object_map,
                           heap |-> o.heap,
                           relationships |->
                               Append(st.relationships,
                                      [id |-> rel.relationship_id,
                                       subject |-> s.object_,
                                       predicate |-> rel.predicate,
                                       object |-> o.object_,
                                       synset |-> rel.synsets]),
                           skips |-> st.skips])
             ELSE LinkRelationships(Tail(recs),
                                    [st EXCEPT !.skips = st.skips + 1])

\* for attr in data['attributes']: a record whose object_id is a key of the
\* registry becomes an Attribute holding an Object constructed on the spot
\* from the record's own fields; any other record is skipped and
\* count_skips[1] is incremented.
RECURSIVE LinkAttributes(_, _)
LinkAttributes(recs, st) ==
    IF recs = <<>> THEN st
    ELSE LET attr == Head(recs)
             a == attr.attribute
         IN  IF a.object_id \in DOMAIN st.object_map
             THEN LinkAttributes(Tail(recs),
                      [object_map |-> st.object_map,
                       heap |-> Append(st.heap,
                                       [id |-> a.object_id, x |-> a.x, y |-> a.y,
                                        width |-> a.w, height |-> a.h,
                                        names |-> a.names, synsets |-> a.synsets]),
                       attributes |->
                           Append(st.attributes,
                                  [id |-> attr.attribute_id,
                                   object |-> Len(st.heap) + 1,
                                   attribute |-> a.attributes,
                                   synset |-> a.synsets]),
                       skips |-> st.skips])
             ELSE LinkAttributes(Tail(recs), [st EXCEPT !.skips = st.skips + 1])

\* parse_graph_local(data, image): the returned Graph and the counters.
parse_graph_local(d, skips) ==
    LET o == MergeObjects(d.objects,
                          [object_map |-> <<>>, heap |-> <<>>, objects |-> <<>>])
        r == LinkRelationships(d.relationships,
                               [object_map |-> o.object_map, heap |-> o.heap,
                                relationships |-> <<>>, skips |-> skips[1]])
        a == IF "attributes" \in DOMAIN d
             THEN LinkAttributes(d.attributes,
                                 [object_map |-> r.object_map, heap |-> r.heap,
                                  attributes |-> <<>>, skips |-> skips[2]])
             ELSE [object_map |-> r.object_map, heap |-> r.heap,
                   attributes |-> <<>>, skips |-> skips[2]]
    IN  [graph |-> [built |-> TRUE,
                    heap |-> a.heap,
                    objects |-> o.objects,
                    relationships |-> r.relationships,
                    attributes |-> a.attributes],
         count_skips |-> <<r.skips, a.skips>>]

(***************************************************************************)
(* The raw per-image record: what a per-image file holds.                  *)
(***************************************************************************)
\* Identifiers used by one input's records.
InputIds == {[pfx |-> 0, n |-> n] : n \in {1, 2}}

InputObjects ==
    { [object_id |-> i, x |-> 1, y |-> 1, w |-> 2, h |-> 2,
       names |-> <<"dog">>, synsets |-> <<>>] @@ g :
          i \in InputIds, g \in {<<>>, [guesswhat |-> TRUE]} }

InputRelationships(rid) ==
    { [relationship_id |-> rid, subject_id |-> s, predicate |-> "on",
       object_id |-> o, synsets |-> <<>>] : s \in InputIds, o \in InputIds }

InputAttribute(aid, i) ==
    [attribute_id |-> aid,
     attribute |-> [object_id |-> i, x |-> 1, y |-> 1, w |-> 2, h |-> 2,
                    names |-> <<"dog">>, synsets |-> <<>>,
                    attributes |-> <<"red">>]]

EmptyData == [objects |-> <<>>, relationships |-> <<>>]

NoGraph == [built |-> FALSE]

AddObjectRecord(o) ==
    /\ ~graph.built
    /\ Len(data.objects) < MaxObjs
    /\ data' = [data EXCEPT !.objects = Append(@, o)]
    /\ UNCHANGED <<graph, count_skips, skips_before>>
    /\ UNCHANGED mergeVars
    /\ UNCHANGED posVars
    /\ UNCHANGED synVars
    /\ UNCHANGED attrVars
    /\ UNCHANGED cacheVars

AddRelationshipRecord(r) ==
    /\ ~graph.built
    /\ Len(data.relationships) < MaxRels
    /\ data' = [data EXCEPT !.relationships = Append(@, r)]
    /\ UNCHANGED <<graph, count_skips, skips_before>>
    /\ UNCHANGED mergeVars
    /\ UNCHANGED posVars
    /\ UNCHANGED synVars
    /\ UNCHANGED attrVars
    /\ UNCHANGED cacheVars

\* The 'attributes' key is there only after add_attrs_to_scene_graphs.
AddAttributesKey ==
    /\ ~graph.built
    /\ "attributes" \notin DOMAIN data
    /\ data' = Put(data, "attributes", <<>>)
    /\ UNCHANGED <<graph, count_skips, skips_before>>
    /\ UNCHANGED mergeVars
    /\ UNCHANGED posVars
    /\ UNCHANGED synVars
    /\ UNCHANGED attrVars
    /\ UNCHANGED cacheVars

AddAttributeRecord(i) ==
    /\ ~graph.built
    /\ "attributes" \in DOMAIN data
    /\ Len(data.attributes) < MaxAttrs
    /\ data' = [data EXCEPT !.attributes =
                    Append(@, InputAttribute(Len(data.attributes) + 1, i))]
    /\ UNCHANGED <<graph, count_skips, skips_before>>
    /\ UNCHANGED mergeVars
    /\ UNCHANGED posVars
    /\ UNCHANGED synVars
    /\ UNCHANGED attrVars
    /\ UNCHANGED cacheVars

\* One call of parse_graph_local on the assembled record.
ParseGraphLocal ==
    /\ ~graph.built
    /\ count_skips[1] + count_skips[2] <= MaxSkips
    /\ LET r == parse_graph_local(data, count_skips)
       IN  /\ graph' = r.graph
           /\ count_skips' = r.count_skips
    /\ skips_before' = count_skips
    /\ UNCHANGED data
    /\ UNCHANGED mergeVars
    /\ UNCHANGED posVars
    /\ UNCHANGED synVars
    /\ UNCHANGED attrVars
    /\ UNCHANGED cacheVars

\* The caller turns to the next image of the same process.
NextImage ==
    /\ graph.built
    /\ data' = EmptyData
    /\ graph' = NoGraph
    /\ skips_before' = count_skips
    /\ UNCHANGED count_skips
    /\ UNCHANGED mergeVars
    /\ UNCHANGED posVars
    /\ UNCHANGED synVars
    /\ UNCHANGED attrVars
    /\ UNCHANGED cacheVars

InitGraphVars ==
    /\ data = EmptyData
    /\ graph = NoGraph
    /\ count_skips = <<0, 0>>
    /\ skips_before = <<0, 0>>

InitMergeVars ==
    /\ object_map = <<>>
    /\ heap = <<>>
    /\ last = NoCall
    /\ prev = NoCall

\* Image sides are multiples of 4, so that image.width / 4 is an integer.
Images == {[width |-> 4 * i, height |-> 4 * j] : i, j \in 1..MaxQuarter}

InitPosVars ==
    /\ image = [width |-> 4, height |-> 4]
    /\ bbox = <<>>
    /\ positional_attributes = <<>>

NoSceneGraph == [objects |-> <<>>, relationships |-> <<>>, attributes |-> <<>>]

InitSynVars ==
    /\ scene_graph = NoSceneGraph
    /\ sg_in = NoSceneGraph
    /\ sg_once = NoSceneGraph
    /\ syn_outcome = "none"
    /\ passes = 0

NoSceneRecord == [objects |-> <<>>]

\* gw_image_data is None: the image has no guesswhat objects.
NoGwData == [none |-> TRUE]

\* The cache file is absent, readable as a mapping, or not readable as one.
NoFile == [kind |-> "missing"]

\* The process of the other components has imported the module in a
\* working directory without a cache file, and keeps no cache file.
InitCacheVars ==
    /\ storage = [cache_dir |-> TRUE, dot_cache_dir |-> FALSE, file |-> NoFile]
    /\ proc = [phase |-> "imported", writes |-> 0, file_before |-> NoFile,
               cache_at_end |-> <<>>]
    /\ boot = [starts |-> 1, found |-> NoFile, loaded |-> <<>>,
               previous |-> "off", previous_cache |-> <<>>]

InitAttrVars ==
    /\ attributes_data = <<>>
    /\ similarity_cache = <<>>
    /\ sg_data = NoSceneRecord
    /\ gw_image_data = NoGwData
    /\ synth_log = <<>>
    /\ synth_outcome = "none"
    /\ first_synth = <<>>

InitMerge ==
    /\ InitMergeVars
    /\ InitGraphVars
    /\ InitPosVars
    /\ InitSynVars
    /\ InitAttrVars
    /\ InitCacheVars

InitGraph ==
    /\ InitMergeVars
    /\ InitGraphVars
    /\ InitPosVars
    /\ InitSynVars
    /\ InitAttrVars
    /\ InitCacheVars

NextGraph ==
    \/ \E o \in InputObjects : AddObjectRecord(o)
    \/ \E r \in InputRelationships(Len(data.relationships) + 1) :
           AddRelationshipRecord(r)
    \/ AddAttributesKey
    \/ \E i \in InputIds : AddAttributeRecord(i)
    \/ ParseGraphLocal
    \/ NextImage

SpecGraph == InitGraph /\ [][NextGraph]_vars

NextMerge == \E obj \in RawObjects : MapObject(obj)

SpecMerge == InitMerge /\ [][NextMerge]_vars

(***************************************************************************)
(* extract_positional_attributes.                                          *)
(***************************************************************************)
\* format_box: [x, y, width, height] -> [x1, y1, x2, y2]
format_box(b) == <<b[1], b[2], b[3] + b[1], b[4] + b[2]>>

\* if boxA[0] > boxB[2]: right_image / elif boxB[0] > boxA[2]: left_image
HorizontalTag(boxA, boxB) ==
    IF boxA[1] > boxB[3] THEN <<"right_image">>
    ELSE IF boxB[1] > boxA[3] THEN <<"left_image">>
    ELSE <<>>

\* if boxA[3] < boxB[1]: top_image / elif boxA[1] > boxB[3]: bottom_image
VerticalTag(boxA, boxB) ==
    IF boxA[4] < boxB[2] THEN <<"top_image">>
    ELSE IF boxA[2] > boxB[4] THEN <<"bottom_image">>
    ELSE <<>>

\* extract_positional_attributes(image, bbox).  center_box is built from
\* box_height and box_width + box_height, and is then passed through
\* format_box like the object's box.
extract_positional_attributes(img, b) ==
    LET box_width == img.width \div 4
        box_height == img.height \div 4
        center_box == <<box_height, box_height,
                        box_width + box_height, box_width + box_height>>
        boxA == format_box(b)
        boxB == format_box(center_box)
        tags == HorizontalTag(boxA, boxB) \o VerticalTag(boxA, boxB)
    IN  IF tags = <<>> THEN <<"center">> ELSE tags

\* Boxes of an image: any corner inside the image, and a small or a
\* half-image extent on each axis.
Boxes(img) ==
    { <<x, y, w, h>> : x \in 0..img.width, y \in 0..img.height,
                       w \in {1, img.width \div 2}, h \in {1, img.height \div 2} }

ExtractPositionalAttributes(b) ==
    /\ bbox' = b
    /\ positional_attributes' = extract_positional_attributes(image, b)
    /\ UNCHANGED image
    /\ UNCHANGED mergeVars
    /\ UNCHANGED graphVars
    /\ UNCHANGED synVars
    /\ UNCHANGED attrVars
    /\ UNCHANGED cacheVars

InitPos ==
    /\ InitMergeVars
    /\ InitGraphVars
    /\ InitSynVars
    /\ InitAttrVars
    /\ InitCacheVars
    /\ image \in Images
    /\ bbox = <<>>
    /\ positional_attributes = <<>>

NextPos == \E b \in Boxes(image) : ExtractPositionalAttributes(b)

SpecPos == InitPos /\ [][NextPos]_vars

(***************************************************************************)
(* init_synsets.                                                           *)
(*                                                                         *)
(* A sense reference is [kind, name]: kind "str" for a raw sense name,     *)
(* kind "Synset" for a Synset instance (with its definition), kind "other" *)
(* for a value that is neither.  syn_class is built from the synset file   *)
(* and is keyed by sense names (strings), so a key lookup finds an entry   *)
(* for a raw name of the file and for nothing else.                        *)
(***************************************************************************)
\* Sense names: in the synset file and in WordNet, in WordNet only, in the
\* synset file only, in neither.
FileNames == {"dog.n.01", "vg.n.99"}

WordNetNames == {"dog.n.01", "wear.v.01"}

SenseNames == {"dog.n.01", "wear.v.01", "vg.n.99", "zz.n.01"}

Raw(n) == [kind |-> "str", name |-> n]

\* syn_class[name]: Synset(s['synset_name'], s['synset_definition'])
FileSynset(n) == [kind |-> "Synset", name |-> n, definition |-> "file"]

\* Synset(sn, wn.synset(sn))
WordNetSynset(n) == [kind |-> "Synset", name |-> n, definition |-> "wordnet"]

\* 'key in syn_class' for any value used as a key.
InSynClass(sn) == sn.kind = "str" /\ sn.name \in FileNames

\* The inner loop over obj.synsets: [resolved list, exception or "ok"].
RECURSIVE ResolveObjectSynsets(_, _)
ResolveObjectSynsets(sns, acc) ==
    IF sns = <<>> THEN [synsets |-> acc, outcome |-> "ok"]
    ELSE LET sn == Head(sns)
         IN  IF sn.kind = "Synset"
             THEN ResolveObjectSynsets(Tail(sns), Append(acc, sn))
             ELSE IF sn.kind = "str"
             THEN IF InSynClass(sn)
                  THEN ResolveObjectSynsets(Tail(sns), Append(acc, FileSynset(sn.name)))
                  ELSE IF sn.name \in WordNetNames
                  THEN ResolveObjectSynsets(Tail(sns),
                                            Append(acc, WordNetSynset(sn.name)))
                  ELSE [synsets |-> acc, outcome |-> "WordNetError"]
             ELSE ResolveObjectSynsets(Tail(sns), acc)

\* [syn_class[sn] for sn in rel.synset]
ResolveByTable(sns) ==
    IF \A i \in DOMAIN sns : InSynClass(sns[i])
    THEN [synsets |-> [i \in DOMAIN sns |-> FileSynset(sns[i].name)], outcome |-> "ok"]
    ELSE [synsets |-> sns, outcome |-> "KeyError"]

\* A loop over the parts of one kind, each part a sense list; an exception
\* leaves the part it was raised for, and the parts after it, as they were.
RECURSIVE ResolveObjects(_, _)
ResolveObjects(parts, done) ==
    IF parts = <<>> THEN [parts |-> done, outcome |-> "ok"]
    ELSE LET r == ResolveObjectSynsets(Head(parts), <<>>)
         IN  IF r.outcome = "ok"
             THEN ResolveObjects(Tail(parts), Append(done, r.synsets))
             ELSE [parts |-> done \o parts, outcome |-> r.outcome]

RECURSIVE ResolveLinks(_, _)
ResolveLinks(parts, done) ==
    IF parts = <<>> THEN [parts |-> done, outcome |-> "ok"]
    ELSE LET r == ResolveByTable(Head(parts))
         IN  IF r.outcome = "ok"
             THEN ResolveLinks(Tail(parts), Append(done, r.synsets))
             ELSE [parts |-> done \o parts, outcome |-> r.outcome]

\* init_synsets(scene_graph, synset_file): objects, then relationships,
\* then attributes; an exception ends the pass where it is raised.
init_synsets(sg) ==
    LET o == ResolveObjects(sg.objects, <<>>)
        r == IF o.outcome = "ok" THEN ResolveLinks(sg.relationships, <<>>)
             ELSE [parts |-> sg.relationships, outcome |-> o.outcome]
        a == IF r.outcome = "ok" THEN ResolveLinks(sg.attributes, <<>>)
             ELSE [parts |-> sg.attributes, outcome |-> r.outcome]
    IN  [scene_graph |-> [objects |-> o.parts, relationships |-> r.parts,
                          attributes |-> a.parts],
         outcome |-> a.outcome]

RECURSIVE SeqsUpTo(_, _)
SeqsUpTo(S, n) ==
    IF n = 0 THEN {<<>>}
    ELSE SeqsUpTo(S, n - 1) \cup
         {Append(q, x) : q \in {t \in SeqsUpTo(S, n - 1) : Len(t) = n - 1}, x \in S}

\* Sense lists as parse_graph_local leaves them: raw names; an object's list
\* may also hold a value that is neither a name nor a Synset.
ObjectSenseLists == SeqsUpTo({Raw(n) : n \in SenseNames} \cup {[kind |-> "other", name |-> "None"]}, MaxSenses)

LinkSenseLists == SeqsUpTo({Raw(n) : n \in SenseNames}, MaxSenses)

\* One pass; a second pass follows only a pass that completed.
InitSynsets ==
    /\ passes < MaxPasses
    /\ syn_outcome \in {"none", "ok"}
    /\ LET r == init_synsets(scene_graph)
       IN  /\ scene_graph' = r.scene_graph
           /\ syn_outcome' = r.outcome
           /\ sg_once' = IF passes = 0 THEN r.scene_graph ELSE sg_once
    /\ passes' = passes + 1
    /\ UNCHANGED sg_in
    /\ UNCHANGED mergeVars
    /\ UNCHANGED graphVars
    /\ UNCHANGED posVars
    /\ UNCHANGED attrVars
    /\ UNCHANGED cacheVars

InitSyn ==
    /\ InitMergeVars
    /\ InitGraphVars
    /\ InitPosVars
    /\ InitAttrVars
    /\ InitCacheVars
    /\ scene_graph \in [objects : SeqsUpTo(ObjectSenseLists, MaxParts),
                         relationships : SeqsUpTo(LinkSenseLists, MaxParts),
                         attributes : SeqsUpTo(LinkSenseLists, MaxParts)]
    /\ sg_in = scene_graph
    /\ sg_once = NoSceneGraph
    /\ syn_outcome = "none"
    /\ passes = 0

NextSyn == InitSynsets

SpecSyn == InitSyn /\ [][NextSyn]_vars

(***************************************************************************)
(* extract_category_attributes and init_attributes.                        *)
(*                                                                         *)
(* An attribute string is the sequence of its characters, so that          *)
(* str.replace is computed.  Sense names and category codes are only ever  *)
(* compared, and stay strings.  Similarity scores are in hundredths.       *)
(***************************************************************************)
\* str.replace(old, new): every non-overlapping occurrence, leftmost first.
RECURSIVE Replace(_, _, _)
Replace(str, old, new) ==
    IF Len(str) < Len(old) THEN str
    ELSE IF SubSeq(str, 1, Len(old)) = old
    THEN new \o Replace(SubSeq(str, Len(old) + 1, Len(str)), old, new)
    ELSE <<Head(str)>> \o Replace(Tail(str), old, new)

\* The second replacement alone.
NormAttKeepMarker(att) == Replace(att, <<"_">>, <<" ">>)

\* att.replace("beh_-_", "_").replace("_", " ")
NormAtt(att) ==
    Replace(Replace(att, <<"b", "e", "h", "_", "-", "_">>, <<"_">>), <<"_">>, <<" ">>)

\* t.replace(" ", "_")
NormType(t) == Replace(t, <<" ">>, <<"_">>)

\* extract_category_attributes(category_attributes): the groups in order,
\* the attributes of each group in order.
RECURSIVE extract_category_attributes(_)
extract_category_attributes(category_attributes) ==
    IF category_attributes = <<>> THEN <<>>
    ELSE LET cat_attrs == Head(category_attributes).attrs
         IN  [i \in DOMAIN cat_attrs |-> NormAtt(cat_attrs[i])]
             \o extract_category_attributes(Tail(category_attributes))

\* The four lines that expand a row: its attributes, then its types.
CategoryAttributes(row) ==
    extract_category_attributes(row.data.attributes)
    \o [i \in DOMAIN row.data.types |-> NormType(row.data.types[i])]

\* attributes_data[attributes_data[column] == value]
RowsWhere(table, column, value) == SelectSeq(table, LAMBDA row : row[column] = value)

\* wn.synset(name).name(): WordNet finds a synset by any of its lemmas, and
\* the synset's name is that of its first lemma.
SynsetName(n) == IF n = "auto.n.01" THEN "car.n.01" ELSE n

\* object_syn.wup_similarity(category_syn), in hundredths.
wup_similarity(a, b) ==
    IF a = b THEN 100
    ELSE IF {a, b} = {"wolf.n.01", "dog.n.01"} THEN 80
    ELSE IF {a, b} = {"wolf.n.01", "cat.n.01"} THEN 80
    ELSE IF {a, b} = {"dog.n.01", "cat.n.01"} THEN 85
    ELSE IF {a, b} = {"rock.n.01", "dog.n.01"} THEN 75
    ELSE IF {a, b} = {"rock.n.01", "cat.n.01"} THEN 74
    ELSE IF {a, b} = {"truck.n.01", "car.n.01"} THEN 90
    ELSE 30

Threshold == 75

NoMatch == [name |-> "None", score |-> 0]

\* for category in attributes_data["wordnet_id"]: keep the candidate when
\* similarity_score >= 0.75 and best_match[1] < similarity_score.
RECURSIVE Scan(_, _, _)
Scan(rows, object_syn, best_match) ==
    IF rows = <<>> THEN best_match
    ELSE LET category_syn == SynsetName(Head(rows).wordnet_id)
             similarity_score == wup_similarity(object_syn, category_syn)
         IN  Scan(Tail(rows), object_syn,
                 IF similarity_score >= Threshold /\ best_match.score < similarity_score
                 THEN [name |-> category_syn, score |-> similarity_score]
                 ELSE best_match)

StoreNothing(cache, key, best_match) == cache

\* if best_match[0] is not None: similarity_cache[object_syn.name()] = best_match[0]
StoreBestMatch(cache, key, best_match) ==
    IF best_match.name # "None" THEN Put(cache, key, best_match.name) ELSE cache

\* A Python str as its characters, for the strings the code itself writes.
Chars(str) ==
    CASE str = "right_image" -> <<"r", "i", "g", "h", "t", "_", "i", "m", "a", "g", "e">>
      [] str = "left_image" -> <<"l", "e", "f", "t", "_", "i", "m", "a", "g", "e">>
      [] str = "top_image" -> <<"t", "o", "p", "_", "i", "m", "a", "g", "e">>
      [] str = "bottom_image" -> <<"b", "o", "t", "t", "o", "m", "_", "i", "m", "a", "g", "e">>
      [] str = "center" -> <<"c", "e", "n", "t", "e", "r">>

PositionalChars(tags) == [i \in DOMAIN tags |-> Chars(tags[i])]

\* Lines 360-370: the situated attributes of an object, which are its
\* attribute list (or a new list) extended by the positional attributes.
Situated(obj, vg_image) ==
    (IF "attributes" \in DOMAIN obj THEN obj["attributes"] ELSE <<>>)
    \o PositionalChars(extract_positional_attributes(vg_image,
                           <<obj["x"], obj["y"], obj["w"], obj["h"]>>))

\* What a lookup did: the path it took, the similarity evaluations it made,
\* its best_match, the rows it selected, the cache it left and how it ended.
Found(path, evals, best, rows, cache, outcome) ==
    [path |-> path, evals |-> evals, best |-> best, rows |-> rows,
     cache |-> cache, outcome |-> outcome]

\* Lines 401-403: the rows selected by the name of the best match; none is
\* an error of category_attr["data"].values[0].
Matched(path, evals, best_match, rows, cache) ==
    Found(path, evals, best_match.name, rows, cache,
          IF best_match.name # "None" /\ rows = <<>> THEN "IndexError" ELSE "ok")

\* Lines 398-402: the winner of a scan is stored, and its rows selected.
Scanned(table, object_syn, cache, best_match) ==
    Matched("scan", Len(table), best_match,
            RowsWhere(table, "wordnet_id", best_match.name),
            StoreBestMatch(cache, object_syn, best_match))

\* Lines 384-402, after the exact lookup has found no row.
Fallback(object_syn, table, cache) ==
    IF object_syn \in DOMAIN cache
    THEN Matched("hit", 0, [name |-> cache[object_syn], score |-> 0],
                 RowsWhere(table, "wordnet_id", cache[object_syn]), cache)
    ELSE Scanned(table, object_syn, cache, Scan(table, object_syn, NoMatch))

\* Lines 372-402: the category rows of a sense.
Lookup(sense, table, cache) ==
    IF RowsWhere(table, "wordnet_id", sense) # <<>>
    THEN Found("exact", 0, "None", RowsWhere(table, "wordnet_id", sense), cache, "ok")
    ELSE Fallback(SynsetName(sense), table, cache)

\* Lines 372-406 for one object: no lookup without a first sense.
LookupObject(obj, table, cache) ==
    IF "synsets" \in DOMAIN obj /\ obj["synsets"] # <<>>
    THEN Lookup(obj["synsets"][1], table, cache) @@ [sense |-> obj["synsets"][1]]
    ELSE Found("no sense", 0, "None", <<>>, cache, "ok") @@ [sense |-> "-"]

\* The abstract attributes of the selected row, if there is one.
Abstract(rows) == IF rows = <<>> THEN <<>> ELSE CategoryAttributes(rows[1])

\* The object as the iteration leaves it.  obj["situated_attributes"] is the
\* very list obj["attributes"] names, so the extend of line 369 is seen
\* through both, until line 408 binds obj["attributes"] to a new list; an
\* exception at line 403 leaves the object as lines 360-370 made it.
Rebound(obj, situated, abstract, outcome) ==
    [k \in DOMAIN obj \cup {"situated_attributes", "abstract_attributes"}
           \cup (IF outcome = "ok" THEN {"attributes"} ELSE {}) |->
        CASE k = "situated_attributes" -> situated
          [] k = "abstract_attributes" -> abstract
          [] k = "attributes" -> IF outcome = "ok" THEN situated \o abstract
                                 ELSE situated
          [] OTHER -> obj[k]]

\* One iteration of the loop, from what it looked up.
Synthesized(obj, situated, found, abstract, cache) ==
    [obj |-> Rebound(obj, situated, abstract, found.outcome),
     cache |-> found.cache,
     entry |-> [sense |-> found.sense, path |-> found.path,
                evals |-> found.evals, best |-> found.best,
                abstract |-> abstract, outcome |-> found.outcome,
                cache_before |-> cache, cache_after |-> found.cache]]

WithAbstract(obj, situated, found, cache) ==
    Synthesized(obj, situated, found, Abstract(found.rows), cache)

\* The body of the loop over scene_graph["objects"], for one object: the
\* object as the iteration leaves it, the cache, and what the iteration did.
SynthesizeObject(obj, vg_image, table, cache) ==
    WithAbstract(obj, Situated(obj, vg_image), LookupObject(obj, table, cache), cache)

RECURSIVE SynthesizeObjects(_, _, _, _, _)
\* The loop goes on after an iteration, or the exception ends the call and
\* leaves the objects after the failing one as they were.
Continue(objs, vg_image, table, acc, one) ==
    IF one.entry.outcome = "ok"
    THEN SynthesizeObjects(Tail(objs), vg_image, table, one.cache,
             [objects |-> Append(acc.objects, one.obj),
              log |-> Append(acc.log, one.entry)])
    ELSE [objects |-> Append(acc.objects, one.obj) \o Tail(objs),
          log |-> Append(acc.log, one.entry),
          cache |-> one.cache, outcome |-> one.entry.outcome]

\* for obj in scene_graph["objects"]
SynthesizeObjects(objs, vg_image, table, cache, acc) ==
    IF objs = <<>> THEN [objects |-> acc.objects, log |-> acc.log,
                         cache |-> cache, outcome |-> "ok"]
    ELSE Continue(objs, vg_image, table, acc,
                  SynthesizeObject(Head(objs), vg_image, table, cache))

\* Lines 414-432: the scene object made of a guesswhat object and its row.
GwObject(obj, wordnet_id, situated, abstract) ==
    [synsets |-> <<wordnet_id>>,
     x |-> obj.bbox[1], y |-> obj.bbox[2], w |-> obj.bbox[3], h |-> obj.bbox[4],
     names |-> <<obj.category>>,
     object_id |-> obj.id,
     abstract_attributes |-> abstract,
     situated_attributes |-> situated,
     attributes |-> abstract,
     guesswhat |-> TRUE]

\* Lines 412-433 for one guesswhat object and the rows of its category.
GwAppend(obj, vg_image, category_attr) ==
    IF category_attr # <<>>
    THEN << GwObject(obj, category_attr[1].wordnet_id,
                     PositionalChars(extract_positional_attributes(vg_image, obj.bbox)),
                     Abstract(category_attr)) >>
    ELSE <<>>

\* for obj in gw_image_data["gw_objects"]: an object whose category is a
\* concept of the table becomes a new scene object.
RECURSIVE GwObjects(_, _, _)
GwObjects(gw_objects, vg_image, table) ==
    IF gw_objects = <<>> THEN <<>>
    ELSE GwAppend(Head(gw_objects), vg_image,
                  RowsWhere(table, "concept_id", Head(gw_objects).category))
         \o GwObjects(Tail(gw_objects), vg_image, table)

\* Lines 410-435, after the loop over the objects of the scene.
WithGwObjects(synth, gw_objects) ==
    [scene_graph |-> [objects |-> IF synth.outcome = "ok"
                                  THEN synth.objects \o gw_objects
                                  ELSE synth.objects],
     log |-> synth.log, cache |-> synth.cache, outcome |-> synth.outcome]

\* init_attributes(scene_graph, vg_image, attributes_data, gw_image_data)
init_attributes(scene, vg_image, table, gw, cache) ==
    WithGwObjects(SynthesizeObjects(scene.objects, vg_image, table, cache,
                                    [objects |-> <<>>, log |-> <<>>]),
                  IF gw # NoGwData THEN GwObjects(gw.gw_objects, vg_image, table)
                  ELSE <<>>)

(***************************************************************************)
(* The category table, the scene records and the auxiliary objects.        *)
(***************************************************************************)
DogRow ==
    [wordnet_id |-> "dog.n.01", concept_id |-> "dog",
     data |-> [attributes |-> << [group |-> "behaviour",
                                  attrs |-> << <<"b", "e", "h", "_", "-", "_", "f", "a", "s", "t">> >>] >>,
               types |-> << <<"a", "n", "i", "m", "a", "l", " ", "k", "i", "n", "g", "d", "o", "m">> >>]]

CatRow ==
    [wordnet_id |-> "cat.n.01", concept_id |-> "cat",
     data |-> [attributes |-> << [group |-> "anatomy",
                                  attrs |-> << <<"h", "a", "s", "_", "t", "a", "i", "l">> >>],
                                 [group |-> "behaviour",
                                  attrs |-> << <<"b", "e", "h", "_", "-", "_", "p", "u", "r", "r", "s">> >>] >>,
               types |-> << <<"a", "n", "i", "m", "a", "l", " ", "k", "i", "n", "g", "d", "o", "m">>, <<"p", "e", "t">> >>]]

\* A row keyed by a lemma of the synset car.n.01 that is not its first.
AutoRow ==
    [wordnet_id |-> "auto.n.01", concept_id |-> "car",
     data |-> [attributes |-> << [group |-> "function",
                                  attrs |-> << <<"i", "s", "_", "f", "a", "s", "t">> >>] >>,
               types |-> << <<"v", "e", "h", "i", "c", "l", "e">> >>]]

Rows == {DogRow, CatRow, AutoRow}

\* Tables: the sequences of distinct rows.
Tables == {t \in SeqsUpTo(Rows, MaxRows) :
              \A i, j \in DOMAIN t : i # j => t[i] # t[j]}

\* Scene objects: as the dataset holds them (no attribute list, and no
\* sense list when the object has no sense), or carrying both lists.
SceneObjects ==
    { [x |-> 4, y |-> 3, w |-> 8, h |-> 6] @@ sn :
         sn \in {<<>>} \cup {[synsets |-> <<n>>] :
                    n \in {"dog.n.01", "wolf.n.01", "rock.n.01", "truck.n.01"}} }
    \cup
    { [x |-> 12, y |-> 0, w |-> 2, h |-> 2, attributes |-> << <<"r", "e", "d">> >>,
       synsets |-> sn] :
         sn \in {<<>>} \cup {<<n>> :
                    n \in {"dog.n.01", "wolf.n.01", "rock.n.01", "truck.n.01"}} }

GwImageData ==
    [gw_objects |-> << [category |-> "dog", bbox |-> <<0, 9, 2, 2>>, id |-> 7] >>]

VgImage == [width |-> 16, height |-> 12]

AddSceneObject(o) ==
    /\ synth_outcome = "none"
    /\ Len(sg_data.objects) < MaxSceneObjs
    /\ sg_data' = [sg_data EXCEPT !.objects = Append(@, o)]
    /\ UNCHANGED <<attributes_data, similarity_cache, gw_image_data,
                   synth_log, synth_outcome, first_synth>>
    /\ UNCHANGED <<mergeVars, graphVars, posVars, synVars>>
    /\ UNCHANGED cacheVars

\* The image is one that the guesswhat mapping knows objects of.
SetGwImageData ==
    /\ synth_outcome = "none"
    /\ gw_image_data = NoGwData
    /\ gw_image_data' = GwImageData
    /\ UNCHANGED <<attributes_data, similarity_cache, sg_data,
                   synth_log, synth_outcome, first_synth>>
    /\ UNCHANGED <<mergeVars, graphVars, posVars, synVars>>
    /\ UNCHANGED cacheVars

\* The first results of the cache keys this call added.
FirstResults(log, first) ==
    LET added == {i \in DOMAIN log :
                     /\ log[i].path = "scan"
                     /\ DOMAIN log[i].cache_after # DOMAIN log[i].cache_before}
        KeyOf(i) == CHOOSE k \in DOMAIN log[i].cache_after :
                        k \notin DOMAIN log[i].cache_before
        keys == {KeyOf(i) : i \in added}
    IN  [k \in DOMAIN first \cup keys |->
            IF k \in DOMAIN first THEN first[k]
            ELSE LET i == CHOOSE j \in added : KeyOf(j) = k
                 IN  [abstract |-> log[i].abstract, outcome |-> log[i].outcome]]

\* One call of init_attributes on the assembled scene record.
InitAttributes ==
    /\ synth_outcome = "none"
    /\ LET res == init_attributes(sg_data, image, attributes_data, gw_image_data,
                                similarity_cache)
       IN  /\ sg_data' = res.scene_graph
           /\ similarity_cache' = res.cache
           /\ synth_log' = res.log
           /\ synth_outcome' = res.outcome
           /\ first_synth' = FirstResults(res.log, first_synth)
    /\ UNCHANGED <<attributes_data, gw_image_data>>
    /\ UNCHANGED <<mergeVars, graphVars, posVars, synVars>>
    /\ UNCHANGED cacheVars

\* The loop of save_scene_graphs_by_id takes the next scene record; an
\* exception of init_attributes is not caught there and ends the run.
NextScene ==
    /\ synth_outcome = "ok"
    /\ sg_data' = NoSceneRecord
    /\ gw_image_data' = NoGwData
    /\ synth_log' = <<>>
    /\ synth_outcome' = "none"
    /\ UNCHANGED <<attributes_data, similarity_cache, first_synth>>
    /\ UNCHANGED <<mergeVars, graphVars, posVars, synVars>>
    /\ UNCHANGED cacheVars

InitAttr ==
    /\ InitMergeVars
    /\ InitGraphVars
    /\ InitSynVars
    /\ image = VgImage
    /\ bbox = <<>>
    /\ positional_attributes = <<>>
    /\ attributes_data \in Tables
    /\ similarity_cache = <<>>
    /\ sg_data = NoSceneRecord
    /\ gw_image_data = NoGwData
    /\ synth_log = <<>>
    /\ synth_outcome = "none"
    /\ first_synth = <<>>
    /\ InitCacheVars

NextAttr ==
    \/ \E o \in SceneObjects : AddSceneObject(o)
    \/ SetGwImageData
    \/ InitAttributes
    \/ NextScene

SpecAttr == InitAttr /\ [][NextAttr]_vars

(***************************************************************************)
(* The similarity cache file: the import of the module, which loads it,    *)
(* and save_scene_graphs_by_id, which writes it.                           *)
(*                                                                         *)
(* The working directory holds the directory "cache", the directory        *)
(* ".cache" and, inside the latter, the file of SIMILARITY_CACHE_PATH.     *)
(***************************************************************************)
\* json.dump(similarity_cache, out_file): the members of one JSON object.
json_dump(cache) == {<<name, cache[name]>> : name \in DOMAIN cache}

\* json.load(in_file): the dict of the members of the JSON object.
json_load(members) ==
    [name \in {m[1] : m \in members} |-> (CHOOSE m \in members : m[1] = name)[2]]

ValidFile(members) == [kind |-> "valid", members |-> members]

MalformedFile == [kind |-> "malformed"]

\* Lines 24-34: os.path.exists(SIMILARITY_CACHE_PATH), then json.load, whose
\* exception is caught.
LoadCache(st) ==
    IF st.file.kind = "valid" THEN json_load(st.file.members) ELSE <<>>

\* Lines 19-20: os.makedirs("cache") unless it exists.
MakeCacheDir(st) == [st EXCEPT !.cache_dir = TRUE]

\* Lines 489-490: open(SIMILARITY_CACHE_PATH, mode="w") creates or truncates
\* the file in the directory ".cache", and raises FileNotFoundError when
\* that directory does not exist.
WriteCache(st, cache) ==
    IF st.dot_cache_dir
    THEN [storage |-> [st EXCEPT !.file = ValidFile(json_dump(cache))],
          outcome |-> "ok"]
    ELSE [storage |-> st, outcome |-> "FileNotFoundError"]

\* Mappings an earlier process may have left in the file.
StoredMappings == {<<>>, [name \in {"wolf.n.01"} |-> "dog.n.01"]}

\* The working directory before the first process: without the directory
\* ".cache", or with it and no file, a malformed file or a valid one.
StorageStates ==
    {[cache_dir |-> c, dot_cache_dir |-> FALSE, file |-> NoFile] : c \in BOOLEAN}
    \cup
    {[cache_dir |-> c, dot_cache_dir |-> TRUE, file |-> f] :
        c \in BOOLEAN,
        f \in {NoFile, MalformedFile}
              \cup {ValidFile(json_dump(m)) : m \in StoredMappings}}

\* The category tables of the runs (visa.jsonl).
CacheTables == {<<DogRow>>, <<AutoRow, DogRow>>}

\* A process starts and imports the module (lines 19-34); the process
\* before it, if any, has ended and its memory is gone.
ProcessStart ==
    /\ proc.phase \in {"off", "finished", "write_failed", "interrupted"}
    /\ boot.starts < MaxStarts
    /\ storage' = MakeCacheDir(storage)
    /\ similarity_cache' = LoadCache(storage)
    /\ proc' = [phase |-> "imported", writes |-> 0, file_before |-> storage.file,
                cache_at_end |-> <<>>]
    /\ boot' = [starts |-> boot.starts + 1, found |-> storage.file,
                loaded |-> LoadCache(storage),
                previous |-> proc.phase, previous_cache |-> proc.cache_at_end]
    /\ sg_data' = NoSceneRecord
    /\ gw_image_data' = NoGwData
    /\ synth_log' = <<>>
    /\ synth_outcome' = "none"
    /\ first_synth' = <<>>
    /\ UNCHANGED attributes_data
    /\ UNCHANGED <<mergeVars, graphVars, posVars, synVars>>

\* save_scene_graphs_by_id is called (lines 460-470).
StartRun ==
    /\ proc.phase = "imported"
    /\ proc' = [proc EXCEPT !.phase = "running", !.file_before = storage.file]
    /\ UNCHANGED <<storage, boot>>
    /\ UNCHANGED <<mergeVars, graphVars, posVars, synVars, attrVars>>

\* The loop of lines 472-483 is at work.
Running == proc.phase = "running"

\* An exception of init_attributes leaves save_scene_graphs_by_id before
\* line 489.
Interrupted ==
    /\ Running
    /\ synth_outcome \notin {"none", "ok"}
    /\ proc' = [proc EXCEPT !.phase = "interrupted", !.cache_at_end = similarity_cache]
    /\ UNCHANGED <<storage, boot>>
    /\ UNCHANGED <<mergeVars, graphVars, posVars, synVars, attrVars>>

\* The loop has taken every record (lines 485-490): the cache is written.
EndRun ==
    /\ Running
    /\ \/ synth_outcome = "ok"
       \/ synth_outcome = "none" /\ sg_data = NoSceneRecord /\ gw_image_data = NoGwData
    /\ storage' = WriteCache(storage, similarity_cache).storage
    /\ proc' = [proc EXCEPT
                   !.phase = IF WriteCache(storage, similarity_cache).outcome = "ok"
                             THEN "finished" ELSE "write_failed",
                   !.writes = IF WriteCache(storage, similarity_cache).outcome = "ok"
                              THEN @ + 1 ELSE @,
                   !.cache_at_end = similarity_cache]
    /\ UNCHANGED boot
    /\ UNCHANGED <<mergeVars, graphVars, posVars, synVars, attrVars>>

InitCache ==
    /\ InitMergeVars
    /\ InitGraphVars
    /\ InitSynVars
    /\ image = VgImage
    /\ bbox = <<>>
    /\ positional_attributes = <<>>
    /\ attributes_data \in CacheTables
    /\ similarity_cache = <<>>
    /\ sg_data = NoSceneRecord
    /\ gw_image_data = NoGwData
    /\ synth_log = <<>>
    /\ synth_outcome = "none"
    /\ first_synth = <<>>
    /\ storage \in StorageStates
    /\ proc = [phase |-> "off", writes |-> 0, file_before |-> storage.file,
               cache_at_end |-> <<>>]
    /\ boot = [starts |-> 0, found |-> NoFile, loaded |-> <<>>,
               previous |-> "off", previous_cache |-> <<>>]

NextCache ==
    \/ ProcessStart
    \/ StartRun
    \/ Running /\ \E o \in SceneObjects : AddSceneObject(o)
    \/ Running /\ SetGwImageData
    \/ Running /\ InitAttributes
    \/ Running /\ NextScene
    \/ Interrupted
    \/ EndRun

SpecCache == InitCache /\ [][NextCache]_vars

(***************************************************************************)
(* Properties of init_synsets.                                             *)
(***************************************************************************)
\* C8: for every Graph, invoking sense resolution twice in a row completes
\* and yields a Graph identical to the one obtained by invoking it once.
C8_ResolutionIdempotence ==
    passes = 2 => (syn_outcome = "ok" /\ scene_graph = sg_once)

\* What C9 says a raw sense reference becomes.
Resolved(sn) ==
    IF sn.name \in FileNames THEN FileSynset(sn.name) ELSE WordNetSynset(sn.name)

Resolvable(sn) == sn.name \in FileNames \cup WordNetNames

RawRefs(part) == {part[i] : i \in {j \in DOMAIN part : part[j].kind = "str"}}

AllRawRefs(sg) ==
    UNION ( {RawRefs(sg.objects[i]) : i \in DOMAIN sg.objects}
            \cup {RawRefs(sg.relationships[i]) : i \in DOMAIN sg.relationships}
            \cup {RawRefs(sg.attributes[i]) : i \in DOMAIN sg.attributes} )

\* A part's list after resolution, as C9 has it.
ResolvedList(part) ==
    LET keep == SelectSeq(part, LAMBDA sn : sn.kind # "other")
    IN  [i \in DOMAIN keep |-> IF keep[i].kind = "str" THEN Resolved(keep[i]) ELSE keep[i]]

\* C9: every raw sense reference, in an Object's, a Relationship's or an
\* Attribute's list, is replaced by the Sense of the supplied table, or by a
\* Sense built from the ontology when the table lacks the name; resolution
\* fails only when the ontology has no such sense either.
C9_UniformResolution ==
    passes = 1 =>
        /\ syn_outcome # "ok" => \E sn \in AllRawRefs(sg_in) : ~Resolvable(sn)
        /\ syn_outcome = "ok" =>
              /\ \A i \in DOMAIN sg_in.objects :
                     scene_graph.objects[i] = ResolvedList(sg_in.objects[i])
              /\ \A i \in DOMAIN sg_in.relationships :
                     scene_graph.relationships[i] = ResolvedList(sg_in.relationships[i])
              /\ \A i \in DOMAIN sg_in.attributes :
                     scene_graph.attributes[i] = ResolvedList(sg_in.attributes[i])

(***************************************************************************)
(* Properties of extract_positional_attributes.                            *)
(***************************************************************************)
\* The center region of the claim, in corner form: from 1/4 to 3/4 of the
\* image width and of the image height.
CenterRegion(img) ==
    <<img.width \div 4, img.height \div 4,
      3 * (img.width \div 4), 3 * (img.height \div 4)>>

\* C5: a box exactly coincident with the center region (1/4 to 3/4 of the
\* image width and height) yields exactly ["center"], and a box strictly
\* right of and strictly above the center region yields exactly
\* ["right_image", "top_image"].
C5_PositionalBoundary ==
    bbox # <<>> =>
        LET boxA == format_box(bbox)
            c == CenterRegion(image)
        IN  /\ boxA = c => positional_attributes = <<"center">>
            /\ (boxA[1] > c[3] /\ boxA[4] < c[2]) =>
                   positional_attributes = <<"right_image", "top_image">>

(***************************************************************************)
(* Properties of parse_graph_local.                                        *)
(***************************************************************************)
\* C1 as stated: in the returned Graph the subject and the object of every
\* Relationship and the target Object of every Attribute is, by instance
\* identity, an element of the Graph's object sequence.
C1_AsStated ==
    graph.built =>
        /\ \A i \in DOMAIN graph.relationships :
               /\ graph.relationships[i].subject \in Range(graph.objects)
               /\ graph.relationships[i].object \in Range(graph.objects)
        /\ \A i \in DOMAIN graph.attributes :
               graph.attributes[i].object \in Range(graph.objects)

\* C1 amended: the subject and the object of every Relationship is, by
\* instance identity, an element of the Graph's object sequence; the target
\* Object of every Attribute is an instance of its own, constructed from the
\* attribute record, which is not an element of the object sequence but
\* carries the identifier of one.
C1_ReferenceIntegrity ==
    graph.built =>
        /\ \A i \in DOMAIN graph.relationships :
               /\ graph.relationships[i].subject \in Range(graph.objects)
               /\ graph.relationships[i].object \in Range(graph.objects)
        /\ \A i \in DOMAIN graph.attributes :
               /\ graph.attributes[i].object \in DOMAIN graph.heap
               /\ graph.attributes[i].object \notin Range(graph.objects)
               /\ \A j \in DOMAIN graph.attributes :
                      j # i => graph.attributes[j].object # graph.attributes[i].object
               /\ \E o \in Range(graph.objects) :
                      graph.heap[o]["id"] = graph.heap[graph.attributes[i].object]["id"]

\* A Graph with a Relationship and an Attribute, built from an input that
\* names an object identifier twice.
C1_Witness ==
    /\ graph.built
    /\ Len(graph.relationships) >= 1
    /\ Len(graph.attributes) >= 1
    /\ Len(graph.objects) = 2
    /\ graph.objects[1] = graph.objects[2]

\* The scoped identifiers of an input's object records.
ObjectIdsOf(d) == {ScopedId(d.objects[i]) : i \in DOMAIN d.objects}

RelationshipResolves(d, r) ==
    r.subject_id \in ObjectIdsOf(d) /\ r.object_id \in ObjectIdsOf(d)

AttributeResolves(d, a) == a.attribute.object_id \in ObjectIdsOf(d)

KeptRelationships(d) ==
    SelectSeq(d.relationships, LAMBDA r : RelationshipResolves(d, r))

KeptAttributes(d) ==
    IF "attributes" \in DOMAIN d
    THEN SelectSeq(d.attributes, LAMBDA a : AttributeResolves(d, a))
    ELSE <<>>

DroppedRelationships(d) == Len(d.relationships) - Len(KeptRelationships(d))

DroppedAttributes(d) ==
    IF "attributes" \in DOMAIN d
    THEN Len(d.attributes) - Len(KeptAttributes(d))
    ELSE 0

\* The returned Graph holds exactly the input's resolving records, in input
\* order, linked to the Objects that carry the identifiers they name.
HoldsExactlyTheResolving ==
    /\ Len(graph.relationships) = Len(KeptRelationships(data))
    /\ \A i \in DOMAIN graph.relationships :
           LET rel == graph.relationships[i]
               rec == KeptRelationships(data)[i]
           IN  /\ rel.id = rec.relationship_id
               /\ rel.predicate = rec.predicate
               /\ graph.heap[rel.subject]["id"] = rec.subject_id
               /\ graph.heap[rel.object]["id"] = rec.object_id
    /\ Len(graph.attributes) = Len(KeptAttributes(data))
    /\ \A i \in DOMAIN graph.attributes :
           LET att == graph.attributes[i]
               rec == KeptAttributes(data)[i]
           IN  /\ att.id = rec.attribute_id
               /\ graph.heap[att.object]["id"] = rec.attribute.object_id

\* C2 as stated: every build returns exactly the records whose identifiers
\* are identifiers of that input's object records, and after the build each
\* skip counter equals the number of records dropped from that build's input.
C2_AsStated ==
    graph.built =>
        /\ HoldsExactlyTheResolving
        /\ count_skips[1] = DroppedRelationships(data)
        /\ count_skips[2] = DroppedAttributes(data)

\* C2 amended: every build returns exactly the records whose identifiers are
\* scoped identifiers of that input's object records, in input order, and
\* raises each skip counter by the number of records dropped from that
\* build's input; the counters are never reset, so after a build they hold
\* the total dropped by all builds of the process so far.
C2_DroppedAndCounted ==
    graph.built =>
        /\ HoldsExactlyTheResolving
        /\ count_skips[1] = skips_before[1] + DroppedRelationships(data)
        /\ count_skips[2] = skips_before[2] + DroppedAttributes(data)

\* A later build of a process that has skipped before: one relationship
\* kept, one dropped.
C2_Witness ==
    /\ graph.built
    /\ skips_before[1] = 1
    /\ Len(data.relationships) = 2
    /\ Len(graph.relationships) = 1
    /\ count_skips[1] = 2

(***************************************************************************)
(* Properties of map_object.                                               *)
(***************************************************************************)
\* The latest two calls carried the same raw identifier and the same flag.
SamePair ==
    /\ prev.called /\ last.called
    /\ prev.object_id = last.object_id
    /\ prev.flag = last.flag

\* The parts of C3 that do not depend on the registry the pair is merged into.
PairIdempotent ==
    /\ last.object_ = prev.object_
    /\ last.object_ = object_map[last.oid]
    /\ last.after = last.before
    /\ last.before = prev.after
    /\ last.existing = <<heap[last.object_]>>

\* C3 as stated: for every registry, merging two records with the same
\* identifier and the same source flag returns the identical Object both
\* times, grows the registry by exactly one on the first merge and by zero
\* on the second, and the second merge leaves the Object's fields unchanged.
C3_AsStated ==
    SamePair => (PairIdempotent /\ prev.after = prev.before + 1)

\* C3 amended: as C3, except that the first merge grows the registry by
\* exactly one only when the registry does not hold the scoped identifier
\* yet, and by zero when it does.
C3_MergeIdempotence ==
    SamePair =>
        /\ PairIdempotent
        /\ prev.after = prev.before + (IF prev.known THEN 0 ELSE 1)

\* A pair was merged into a registry new to the identifier, and the second
\* record carried other fields than the Object made from the first.
C3_Witness ==
    /\ SamePair
    /\ ~prev.known
    /\ prev.after = prev.before + 1
    /\ heap[last.object_]["x"] = 1
    /\ Len(heap[last.object_]["attributes"]) = 0
    /\ Len(heap) = 2

\* The latest two calls carried the same raw identifier, the earlier one
\* flagged auxiliary and the later one not, or the other way round.
MixedPair ==
    /\ prev.called /\ last.called
    /\ prev.object_id = last.object_id
    /\ prev.flag # last.flag

\* C4: merging an unflagged and a flagged record with the same raw
\* identifier n into one registry yields two distinct scoped identifiers, n
\* and the prefixed form of n, two registry entries and two distinct Object
\* instances; an unflagged record's scoped identifier is its raw identifier.
C4_Namespacing ==
    /\ last.called =>
          /\ last.oid = (IF last.flag THEN GwFormat(last.object_id)
                                     ELSE last.object_id)
          /\ heap[last.object_]["id"] = last.oid
    /\ MixedPair =>
          /\ last.oid # prev.oid
          /\ {last.oid, prev.oid} = {last.object_id, GwFormat(last.object_id)}
          /\ {last.oid, prev.oid} \subseteq DOMAIN object_map
          /\ object_map[last.oid] = last.object_
          /\ object_map[prev.oid] = prev.object_
          /\ last.object_ # prev.object_
          /\ (~prev.known /\ ~last.known) => last.after = prev.before + 2

\* Both records of a mixed pair were new to the registry.
C4_Witness ==
    /\ MixedPair
    /\ ~prev.known /\ ~last.known
    /\ Cardinality(DOMAIN object_map) = 2

(***************************************************************************)
(* Properties of init_attributes.                                          *)
(***************************************************************************)
\* The entries of the last call that took the given path.
Entries(path) == {i \in DOMAIN synth_log : synth_log[i].path = path}

\* The row an exact lookup of the sense selects.
ExactRow(sense) == RowsWhere(attributes_data, "wordnet_id", sense)[1]

\* The expansion rule written out on the strings of the rows: the marker
\* becomes an underscore and that underscore a space, so a string that
\* begins with the marker begins with a space afterwards.
Expected(row) ==
    CASE row = DogRow -> <<<<" ", "f", "a", "s", "t">>, <<"a", "n", "i", "m", "a", "l", "_", "k", "i", "n", "g", "d", "o", "m">>>>
      [] row = CatRow -> <<<<"h", "a", "s", " ", "t", "a", "i", "l">>, <<" ", "p", "u", "r", "r", "s">>, <<"a", "n", "i", "m", "a", "l", "_", "k", "i", "n", "g", "d", "o", "m">>, <<"p", "e", "t">>>>
      [] row = AutoRow -> <<<<"i", "s", " ", "f", "a", "s", "t">>, <<"v", "e", "h", "i", "c", "l", "e">>>>

\* C6 as stated: the group {"beh_-_fast"} and the type {"animal kingdom"}
\* give the abstract attributes "fast" and "animal_kingdom", and the
\* similarity cache is neither read nor changed.
C6_AsStated ==
    \A i \in Entries("exact") :
        /\ ExactRow(synth_log[i].sense) = DogRow =>
               synth_log[i].abstract = <<<<"f", "a", "s", "t">>, <<"a", "n", "i", "m", "a", "l", "_", "k", "i", "n", "g", "d", "o", "m">>>>
        /\ synth_log[i].evals = 0
        /\ synth_log[i].cache_after = synth_log[i].cache_before

\* C6: an object whose first sense is the key sense of a row gets the
\* row's attributes, each with the marker "beh_-_" replaced by an
\* underscore and then every underscore by a space, followed by the row's
\* types with spaces replaced by underscores; "beh_-_fast" and
\* "animal kingdom" give " fast" (with a leading space) and
\* "animal_kingdom"; the similarity cache is neither read nor changed.
C6_ExactExpansion ==
    \A i \in Entries("exact") :
        /\ synth_log[i].abstract = Expected(ExactRow(synth_log[i].sense))
        /\ synth_log[i].outcome = "ok"
        /\ synth_log[i].evals = 0
        /\ synth_log[i].cache_after = synth_log[i].cache_before

\* The row of the example is expanded for an object while the cache holds
\* an entry.
C6_Witness ==
    \E i \in Entries("exact") :
        /\ ExactRow(synth_log[i].sense) = DogRow
        /\ synth_log[i].abstract = <<<<" ", "f", "a", "s", "t">>, <<"a", "n", "i", "m", "a", "l", "_", "k", "i", "n", "g", "d", "o", "m">>>>
        /\ synth_log[i].cache_before # <<>>
        /\ similarity_cache = synth_log[i].cache_before

\* The name under which the cache holds the sense of an entry.
KeyOf(e) == SynsetName(e.sense)

\* C7: a scan that a row wins stores the winner's name in the cache under
\* the name of the queried sense, and every later synthesis for that sense
\* is a cache hit: no similarity is evaluated, and the abstract attributes
\* (and the outcome) are those of the synthesis that stored the entry.
C7_FallbackCaching ==
    \A i \in DOMAIN synth_log :
        LET e == synth_log[i]
        IN  /\ (e.path = "scan" /\ e.best # "None") =>
                   /\ KeyOf(e) \in DOMAIN e.cache_after
                   /\ e.cache_after[KeyOf(e)] = e.best
                   /\ KeyOf(e) \in DOMAIN first_synth
            /\ (e.path \in {"scan", "hit"} /\ KeyOf(e) \in DOMAIN e.cache_before) =>
                   e.path = "hit"
            /\ e.path = "hit" =>
                   /\ e.evals = 0
                   /\ e.cache_after = e.cache_before
                   /\ KeyOf(e) \in DOMAIN first_synth
                   /\ e.abstract = first_synth[KeyOf(e)].abstract
                   /\ e.outcome = first_synth[KeyOf(e)].outcome

\* A sense that a row at similarity 0.80 won is synthesized again, from
\* the cache, and gets that row's attributes.
C7_Witness ==
    \E i \in Entries("hit") :
        /\ synth_log[i].sense = "wolf.n.01"
        /\ synth_log[i].best = "dog.n.01"
        /\ wup_similarity("wolf.n.01", "dog.n.01") = 80
        /\ synth_log[i].outcome = "ok"
        /\ synth_log[i].abstract # <<>>
        /\ first_synth["wolf.n.01"].abstract = synth_log[i].abstract

\* The similarity of a sense to the key sense of a row.
ScoreOf(sense, row) == wup_similarity(SynsetName(sense), SynsetName(row.wordnet_id))

\* The rows at least as similar to the sense as the threshold asks.
Reaching(sense) ==
    {k \in DOMAIN attributes_data : ScoreOf(sense, attributes_data[k]) >= Threshold}

\* The first row, in table order, among those of maximal similarity.
FirstBest(sense) ==
    CHOOSE k \in Reaching(sense) :
        /\ \A j \in DOMAIN attributes_data :
              ScoreOf(sense, attributes_data[j]) <= ScoreOf(sense, attributes_data[k])
        /\ \A j \in 1..(k - 1) :
              ScoreOf(sense, attributes_data[j]) < ScoreOf(sense, attributes_data[k])

\* C10: on a cache miss the chosen category is the first row of maximal
\* similarity if that similarity is at least 0.75; otherwise the object gets
\* no abstract attributes, without error and without a cache entry, and the
\* sense is scanned again the next time.  So every cache entry maps a sense
\* name to the key sense of a row at least 0.75 similar to it.
C10_FallbackSelection ==
    /\ \A i \in Entries("scan") :
          LET e == synth_log[i]
              k == FirstBest(e.sense)
          IN  /\ e.evals = Len(attributes_data)
              /\ KeyOf(e) \notin DOMAIN e.cache_before
              /\ IF Reaching(e.sense) # {}
                 THEN /\ e.best = attributes_data[k].wordnet_id
                      /\ e.outcome = "ok"
                      /\ e.abstract = CategoryAttributes(attributes_data[k])
                 ELSE /\ e.best = "None"
                      /\ e.outcome = "ok"
                      /\ e.abstract = <<>>
                      /\ e.cache_after = e.cache_before
    /\ \A name \in DOMAIN similarity_cache :
          \E k \in DOMAIN attributes_data :
              /\ attributes_data[k].wordnet_id = similarity_cache[name]
              /\ wup_similarity(name, SynsetName(attributes_data[k].wordnet_id)) >= Threshold

(***************************************************************************)
(* Properties of the similarity cache file.                                *)
(***************************************************************************)
\* The cache file holds exactly the given mapping.
FileHolds(file, cache) ==
    /\ file.kind = "valid"
    /\ {m[1] : m \in file.members} = DOMAIN cache
    /\ \A m \in file.members : cache[m[1]] = m[2]

\* C11: a process start leaves the in-memory cache empty when the cache file
\* is missing (with or without its directory) or malformed, and equal to the
\* file's mapping when the file is valid; a synthesis run that has taken all
\* its records has written the whole in-memory cache to the file, exactly
\* once and only at its end, so that the next process start loads what the
\* run found; an interrupted run leaves the file as it was.
C11_PersistenceLifecycle ==
    /\ boot.starts > 0 =>
          IF boot.found.kind = "valid"
          THEN FileHolds(boot.found, boot.loaded)
          ELSE boot.loaded = <<>>
    /\ proc.phase \in {"imported", "running", "interrupted"} =>
          /\ proc.writes = 0
          /\ storage.file = proc.file_before
    /\ proc.phase \in {"finished", "write_failed"} =>
          /\ proc.writes = 1
          /\ FileHolds(storage.file, proc.cache_at_end)
    /\ (boot.starts > 0 /\ boot.previous \in {"finished", "write_failed"}) =>
          boot.loaded = boot.previous_cache

====
